---- MODULE Spec2Model ----
(***************************************************************************)
(* Model of the lights HAL service of light/Light.cpp: the handler         *)
(* registry mLights, the RGB state store mLightStates, the global mutex    *)
(* mLock, and the control-node writes issued by setLight's handlers.       *)
(* Every client thread is a process that calls setLight or                 *)
(* getSupportedTypes; a handler's control-node writes are single steps.    *)
(***************************************************************************)
EXTENDS Integers, Sequences, FiniteSets, TLC

\* Number of binder threads that call into the service concurrently.
NumThreads == 2

Threads == 1..NumThreads

\* Light.cpp:98-99
kRampSteps == 16
kRampMaxStepDurationMs == 15

\* Largest value of the C++ type int (32 bits).
MaxInt32 == 2147483647

-----------------------------------------------------------------------------
(* Values *)

\* A LightState as the handlers read it (brightnessMode is never read).
LS(c, m, on, off) == [color |-> c, flashMode |-> m, flashOnMs |-> on, flashOffMs |-> off]

\* The Type values a caller can pass to setLight (Light.cpp:159).
Types == {"BACKLIGHT", "KEYBOARD", "BUTTONS", "BATTERY", "NOTIFICATIONS", "ATTENTION", "BLUETOOTH", "WIFI"}

\* The slots of mLightStates, as indexed by the bound handlers (Light.cpp:48-52).
Slots == 0..2

\* One write to a control node: set(makeLedPath(led, op), value).  The text
\* written is a decimal integer or a comma-separated list of them; value is
\* the list of the integers printed.
Write(led, op, value) == [led |-> led, op |-> op, value |-> value]

\* x / y of C++ for y > 0: the quotient truncated towards zero.
CDiv(x, y) ==
    LET floor == x \div y
    IN  IF x >= 0 \/ x % y = 0 THEN floor ELSE floor + 1

-----------------------------------------------------------------------------
(* rgbToBrightness, Light.cpp:39-45 *)

\* The weights of red and green exchanged.
rgbToBrightness_Swapped(state) ==
    LET color == state.color % 16777216
    IN  ((150 * ((color \div 65536) % 256))
         + (77 * ((color \div 256) % 256))
         + (29 * (color % 256))) \div 256

rgbToBrightness(state) ==
    LET color == state.color % 16777216
    IN  ((77 * ((color \div 65536) % 256))
         + (150 * ((color \div 256) % 256))
         + (29 * (color % 256))) \div 256

-----------------------------------------------------------------------------
(* get and setBacklight, Light.cpp:30-37 and 55-70 *)

\* What reading a control node yields: the stream fails (the node is missing
\* or holds no integer) or an int is extracted.
ReadFail == [fail |-> TRUE, value |-> 0]
ReadOk(v) == [fail |-> FALSE, value |-> v]

get(read, def) == IF read.fail THEN def ELSE read.value

\* a * b in the type int, for a in -1..MaxInt32 - 1 and b in 0..254, computed
\* on 16-bit halves.  Signed overflow is undefined: a build without overflow
\* checks computes the two's-complement wrap, and nothing else is promised,
\* so an overflowing product is the wrap or any of a sample of other ints.
IntMulOverflows(a, b) ==
    a >= 0 /\ ((a \div 65536) * b + ((a % 65536) * b) \div 65536) >= 32768

IntMulWrap(a, b) ==
    LET lo == (a % 65536) * b
        hi == ((a \div 65536) * b + (lo \div 65536)) % 65536
    IN  IF hi >= 32768 THEN (hi - 65536) * 65536 + (lo % 65536)
                       ELSE hi * 65536 + (lo % 65536)

IntMul(a, b) ==
    IF IntMulOverflows(a, b)
    THEN {IntMulWrap(a, b), 0, MaxInt32, -MaxInt32 - 1}
    ELSE {a * b}

\* The values setBacklight can write for a max_brightness read and a state.
BacklightBrightness(read, state) ==
    LET got == get(read, -1)
        maxBrightness == IF got < 0 THEN 255 ELSE got
        newBrightness == rgbToBrightness(state)
    IN  IF newBrightness > 0 /\ maxBrightness # 255
        THEN {CDiv(p, 254) + 1 : p \in IntMul(maxBrightness - 1, newBrightness - 1)}
        ELSE {newBrightness}

setBacklightWrites(value) == <<Write("lcd-backlight", "brightness", <<value>>)>>

\* The button handler writing the LCD's node.
setButtonBacklightWrites_Lcd(state) ==
    <<Write("lcd-backlight", "brightness", <<rgbToBrightness(state)>>)>>

(* setButtonBacklight, Light.cpp:72-74 *)
setButtonBacklightWrites(state) ==
    <<Write("button-backlight", "brightness", <<rgbToBrightness(state)>>)>>

-----------------------------------------------------------------------------
(* setRgbLight, Light.cpp:76-156 *)

\* The scan falling back to the last slot instead of the front.
RECURSIVE ScanFrom_Back(_, _)
ScanFrom_Back(states, i) ==
    IF i \notin Slots THEN states[2]
    ELSE IF (states[i].color % 16777216) # 0 THEN states[i]
    ELSE ScanFrom_Back(states, i + 1)

\* The scan of lines 79-85 from slot i on: the first slot with a nonzero
\* colour, else the front slot.
RECURSIVE ScanFrom(_, _)
ScanFrom(states, i) ==
    IF i \notin Slots THEN states[0]
    ELSE IF (states[i].color % 16777216) # 0 THEN states[i]
    ELSE ScanFrom(states, i + 1)

\* The scan without its break: the last nonzero slot wins.
StateToUse_NoBreak(states) ==
    IF \E i \in Slots : (states[i].color % 16777216) # 0
    THEN states[CHOOSE i \in Slots :
                    /\ (states[i].color % 16777216) # 0
                    /\ \A j \in Slots : (states[j].color % 16777216) # 0 => j <= i]
    ELSE states[0]

StateToUse(states) == ScanFrom(states, 0)

\* colorValues (lines 87-90): a std::map keyed by the channel name, which the
\* loops of lines 116, 132, 143 and 147 iterate in the order of the keys.
ColorOrder == <<"blue", "green", "red">>

colorValues(stateToUse) ==
    [ch \in {"red", "green", "blue"} |->
        CASE ch = "red"   -> (stateToUse.color \div 65536) % 256
          [] ch = "green" -> (stateToUse.color \div 256) % 256
          [] ch = "blue"  -> stateToUse.color % 256]

\* Lines 92-93.
OnMs(stateToUse) == IF stateToUse.flashMode = "TIMED" THEN stateToUse.flashOnMs ELSE 0
OffMs(stateToUse) == IF stateToUse.flashMode = "TIMED" THEN stateToUse.flashOffMs ELSE 0

\* The loop stopping one step early (i < kRampSteps).
getScaledDutyPercent_Short(brightness) ==
    [k \in 1..kRampSteps |-> ((k - 1) * 512 * brightness) \div (255 * kRampSteps)]

\* Lines 104-113: the comma-separated list, as the list of its integers.
getScaledDutyPercent(brightness) ==
    [k \in 1..(kRampSteps + 1) |-> ((k - 1) * 512 * brightness) \div (255 * kRampSteps)]

\* The comparison taken as >= instead of >.
RampTiming_Geq(onMs, offMs) ==
    IF kRampMaxStepDurationMs * kRampSteps >= onMs
    THEN [stepDuration |-> onMs \div kRampSteps, pauseHi |-> 0, pauseLo |-> offMs]
    ELSE [stepDuration |-> kRampMaxStepDurationMs,
          pauseHi |-> onMs - kRampSteps * kRampMaxStepDurationMs,
          pauseLo |-> offMs - kRampSteps * kRampMaxStepDurationMs]

\* Lines 121-130.
RampTiming(onMs, offMs) ==
    IF kRampMaxStepDurationMs * kRampSteps > onMs
    THEN [stepDuration |-> onMs \div kRampSteps, pauseHi |-> 0, pauseLo |-> offMs]
    ELSE [stepDuration |-> kRampMaxStepDurationMs,
          pauseHi |-> onMs - kRampSteps * kRampMaxStepDurationMs,
          pauseLo |-> offMs - kRampSteps * kRampMaxStepDurationMs]

\* Lines 116-118.
DisableBlinkWrites == [i \in 1..3 |-> Write(ColorOrder[i], "blink", <<0>>)]

\* Lines 132-140: six writes per channel, index advancing by kRampSteps + 1.
LutWritesOf(led, value, index, timing) ==
    << Write(led, "lut_flags", <<95>>),
       Write(led, "start_idx", <<index>>),
       Write(led, "duty_pcts", getScaledDutyPercent(value)),
       Write(led, "pause_lo", <<timing.pauseLo>>),
       Write(led, "pause_hi", <<timing.pauseHi>>),
       Write(led, "ramp_step_ms", <<timing.stepDuration>>) >>

\* The index advancing by kRampSteps, one slot short of a channel's ramp.
LutWrites_Overlap(values, timing) ==
    LutWritesOf(ColorOrder[1], values[ColorOrder[1]], 0, timing)
    \o LutWritesOf(ColorOrder[2], values[ColorOrder[2]], kRampSteps, timing)
    \o LutWritesOf(ColorOrder[3], values[ColorOrder[3]], 2 * kRampSteps, timing)

LutWrites(values, timing) ==
    LutWritesOf(ColorOrder[1], values[ColorOrder[1]], 0, timing)
    \o LutWritesOf(ColorOrder[2], values[ColorOrder[2]], kRampSteps + 1, timing)
    \o LutWritesOf(ColorOrder[3], values[ColorOrder[3]], 2 * (kRampSteps + 1), timing)

\* Lines 143-145.
StartBlinkWrites(values) ==
    [i \in 1..3 |-> Write(ColorOrder[i], "blink", <<values[ColorOrder[i]]>>)]

\* Lines 147-149.
BrightnessWrites(values) ==
    [i \in 1..3 |-> Write(ColorOrder[i], "brightness", <<values[ColorOrder[i]]>>)]

\* The blink started before the LUT is written.
setRgbLightWrites_StartFirst(stateToUse) ==
    LET values == colorValues(stateToUse)
        onMs == OnMs(stateToUse)
        offMs == OffMs(stateToUse)
    IN  DisableBlinkWrites
        \o (IF onMs > 0 /\ offMs > 0
            THEN StartBlinkWrites(values) \o LutWrites(values, RampTiming(onMs, offMs))
            ELSE BrightnessWrites(values))

\* The ramp taken when either duration is positive.
setRgbLightWrites_Either(stateToUse) ==
    LET values == colorValues(stateToUse)
        onMs == OnMs(stateToUse)
        offMs == OffMs(stateToUse)
    IN  DisableBlinkWrites
        \o (IF onMs > 0 \/ offMs > 0
            THEN LutWrites(values, RampTiming(onMs, offMs)) \o StartBlinkWrites(values)
            ELSE BrightnessWrites(values))

\* Lines 115-150: every write of one setRgbLight call, in order.
setRgbLightWrites(stateToUse) ==
    LET values == colorValues(stateToUse)
        onMs == OnMs(stateToUse)
        offMs == OffMs(stateToUse)
    IN  DisableBlinkWrites
        \o (IF onMs > 0 /\ offMs > 0
            THEN LutWrites(values, RampTiming(onMs, offMs)) \o StartBlinkWrites(values)
            ELSE BrightnessWrites(values))

-----------------------------------------------------------------------------
(* State *)

VARIABLES
    mLights,        \* the handler registry, as the sequence its iteration yields
    mLightStates,   \* the three stored states of the RGB lights
    mLock,          \* the mutex: 0 when free, else the thread that holds it
    pc,             \* where each thread is in its call
    req,            \* the arguments of each thread's setLight call
    stateToUse,     \* setRgbLight's local of that name
    pend,           \* the writes the running handler has still to issue
    writes,         \* the writes each thread's call has issued so far
    status,         \* the Status each thread's setLight call returns
    types,          \* the vector getSupportedTypes hands to its callback
    maxRead,        \* what setBacklight's read of max_brightness yielded
    led             \* per RGB channel, the last value written to blink or brightness

vars == <<mLights, mLightStates, mLock, pc, req, stateToUse, pend, writes, status, types,
          maxRead, led>>

OffState == LS(0, "NONE", 0, 0)
NoReq == [type |-> "NONE", state |-> OffState]

\* The slots of BATTERY and NOTIFICATIONS exchanged.
Registration_Swapped ==
    << [type |-> "ATTENTION", handler |-> "setRgbLight", index |-> 0],
       [type |-> "BACKLIGHT", handler |-> "setBacklight", index |-> 0],
       [type |-> "BATTERY", handler |-> "setRgbLight", index |-> 1],
       [type |-> "BUTTONS", handler |-> "setButtonBacklight", index |-> 0],
       [type |-> "NOTIFICATIONS", handler |-> "setRgbLight", index |-> 2] >>

\* The entries of mLights in the order the constructor emplaces them
\* (Light.cpp:48-52); index is the slot bound to setRgbLight.
Registration ==
    << [type |-> "ATTENTION", handler |-> "setRgbLight", index |-> 0],
       [type |-> "BACKLIGHT", handler |-> "setBacklight", index |-> 0],
       [type |-> "BATTERY", handler |-> "setRgbLight", index |-> 2],
       [type |-> "BUTTONS", handler |-> "setButtonBacklight", index |-> 0],
       [type |-> "NOTIFICATIONS", handler |-> "setRgbLight", index |-> 1] >>

\* mLights is an associative container keyed by Type (emplace, find, and
\* iteration over pairs); the order its iteration yields is the container's,
\* not the order of the emplace calls.  The orders modelled: the emplace
\* order and the order of the keys' Type values (BACKLIGHT, BUTTONS, BATTERY,
\* NOTIFICATIONS, ATTENTION).
IterationOrders == {<<1, 2, 3, 4, 5>>, <<2, 4, 3, 5, 1>>}

\* A constructor that forgets its last emplace.
LightInit_Missing(order) ==
    LET kept == SelectSeq(order, LAMBDA i : i # Len(Registration))
    IN  [i \in 1..Len(kept) |-> Registration[kept[i]]]

\* Light::Light, Light.cpp:47-53.
LightInit(order) == [i \in 1..Len(Registration) |-> Registration[order[i]]]

\* mLights.find(type): the position of the entry, 0 for end().
RECURSIVE FindFrom(_, _, _)
FindFrom(lights, type, i) ==
    IF i > Len(lights) THEN 0
    ELSE IF lights[i].type = type THEN i
    ELSE FindFrom(lights, type, i + 1)

\* A lookup that falls back to the first entry instead of end().
Find_Fallback(lights, type) ==
    IF FindFrom(lights, type, 1) = 0 THEN 1 ELSE FindFrom(lights, type, 1)

Find(lights, type) == FindFrom(lights, type, 1)

-----------------------------------------------------------------------------
(* Inputs of the concurrent specification *)

\* States the callers pass: off; zero RGB under a nonzero top byte, timed;
\* a timed green blink; a static red.
CallStates ==
    { OffState,
      LS(2130706432, "TIMED", 500, 500),
      LS(65280, "TIMED", 100, 200),
      LS(16711680, "NONE", 0, 0) }

\* The types the callers pass: the registered ones and one that is not.
CallTypes == {"ATTENTION", "BACKLIGHT", "BATTERY", "BUTTONS", "NOTIFICATIONS", "KEYBOARD"}

\* White, which the callers pass for the two backlights.
White == LS(16777215, "NONE", 0, 0)

\* What the read of lcd-backlight/max_brightness can yield.
CallReads == {ReadFail, ReadOk(1023)}

-----------------------------------------------------------------------------
(* Operations *)

\* The service once constructed.  The constructor leaves mLightStates as
\* allocated, so its slots start with any of the given contents.
InitWith(stores) ==
    /\ mLights \in {LightInit(o) : o \in IterationOrders}
    /\ mLightStates \in stores
    /\ mLock = 0
    /\ pc = [t \in Threads |-> "idle"]
    /\ req = [t \in Threads |-> NoReq]
    /\ stateToUse = [t \in Threads |-> OffState]
    /\ pend = [t \in Threads |-> <<>>]
    /\ writes = [t \in Threads |-> <<>>]
    /\ status = [t \in Threads |-> "NONE"]
    /\ types = [t \in Threads |-> <<>>]
    /\ maxRead = [t \in Threads |-> ReadFail]
    /\ led = [ch \in {"red", "green", "blue"} |-> -1]

Init == InitWith([Slots -> CallStates])

\* setLight up to the lock (Light.cpp:159-167): look the type up and return
\* LIGHT_NOT_SUPPORTED at once when it has no handler.
SetLightFind(t, type, state) ==
    /\ pc[t] = "idle"
    /\ req' = [req EXCEPT ![t] = [type |-> type, state |-> state]]
    /\ IF Find(mLights, type) = 0
       THEN /\ pc' = [pc EXCEPT ![t] = "return"]
            /\ status' = [status EXCEPT ![t] = "LIGHT_NOT_SUPPORTED"]
       ELSE /\ pc' = [pc EXCEPT ![t] = "lock"]
            /\ UNCHANGED status
    /\ UNCHANGED <<mLights, mLightStates, mLock, stateToUse, pend, writes, types, maxRead, led>>

SetLightCall(t, callTypes, callStates) ==
    \E type \in callTypes, state \in callStates : SetLightFind(t, type, state)

\* std::lock_guard<std::mutex> lock(mLock), Light.cpp:167.
CanLock_NoMutex(t) == TRUE

CanLock(t) == mLock = 0

Lock(t) ==
    /\ pc[t] = "lock"
    /\ CanLock(t)
    /\ mLock' = t
    /\ pc' = [pc EXCEPT ![t] = "handler"]
    /\ UNCHANGED <<mLights, mLightStates, req, stateToUse, pend, writes, status, types, maxRead, led>>

\* it->second of Light.cpp:169.
Handler(t) == mLights[Find(mLights, req[t].type)]

\* setRgbLight up to its first write (Light.cpp:76-93): store the state in
\* the slot and pick the state to show.
SetRgbLight(t) ==
    /\ pc[t] = "handler"
    /\ Handler(t).handler = "setRgbLight"
    /\ mLightStates' = [mLightStates EXCEPT ![Handler(t).index] = req[t].state]
    /\ stateToUse' = [stateToUse EXCEPT ![t] = StateToUse(mLightStates')]
    /\ pend' = [pend EXCEPT ![t] = setRgbLightWrites(stateToUse'[t])]
    /\ pc' = [pc EXCEPT ![t] = "write"]
    /\ UNCHANGED <<mLights, mLock, req, writes, status, types, maxRead, led>>

\* setBacklight up to its write (Light.cpp:55-67).
SetBacklight(t, reads) ==
    /\ pc[t] = "handler"
    /\ Handler(t).handler = "setBacklight"
    /\ \E read \in reads : \E value \in BacklightBrightness(read, req[t].state) :
          /\ maxRead' = [maxRead EXCEPT ![t] = read]
          /\ pend' = [pend EXCEPT ![t] = setBacklightWrites(value)]
    /\ pc' = [pc EXCEPT ![t] = "write"]
    /\ UNCHANGED <<mLights, mLightStates, mLock, req, stateToUse, writes, status, types, led>>

\* setButtonBacklight up to its write (Light.cpp:72-73).
SetButtonBacklight(t) ==
    /\ pc[t] = "handler"
    /\ Handler(t).handler = "setButtonBacklight"
    /\ pend' = [pend EXCEPT ![t] = setButtonBacklightWrites(req[t].state)]
    /\ pc' = [pc EXCEPT ![t] = "write"]
    /\ UNCHANGED <<mLights, mLightStates, mLock, req, stateToUse, writes, status, types, maxRead, led>>

\* One set(path, value) of the running handler (Light.cpp:25-28).
LedAfter(w) ==
    IF w.led \in {"red", "green", "blue"} /\ w.op \in {"blink", "brightness"}
    THEN [led EXCEPT ![w.led] = w.value[1]]
    ELSE led

set(t) ==
    /\ pc[t] = "write"
    /\ pend[t] # <<>>
    /\ writes' = [writes EXCEPT ![t] = Append(@, Head(pend[t]))]
    /\ pend' = [pend EXCEPT ![t] = Tail(@)]
    /\ led' = LedAfter(Head(pend[t]))
    /\ UNCHANGED <<mLights, mLightStates, mLock, pc, req, stateToUse, status, types, maxRead>>

\* The handler is through: return Status::SUCCESS (Light.cpp:171), the lock
\* still held.
HandlerDone(t) ==
    /\ pc[t] = "write"
    /\ pend[t] = <<>>
    /\ status' = [status EXCEPT ![t] = "SUCCESS"]
    /\ pc' = [pc EXCEPT ![t] = "return"]
    /\ UNCHANGED <<mLights, mLightStates, mLock, req, stateToUse, pend, writes, types, maxRead, led>>

\* A return that leaves the lock taken.
Return_NoUnlock(t) ==
    /\ pc[t] = "return"
    /\ mLock' = mLock
    /\ pc' = [pc EXCEPT ![t] = "idle"]
    /\ req' = [req EXCEPT ![t] = NoReq]
    /\ stateToUse' = [stateToUse EXCEPT ![t] = OffState]
    /\ writes' = [writes EXCEPT ![t] = <<>>]
    /\ status' = [status EXCEPT ![t] = "NONE"]
    /\ types' = [types EXCEPT ![t] = <<>>]
    /\ maxRead' = [maxRead EXCEPT ![t] = ReadFail]
    /\ UNCHANGED <<mLights, mLightStates, pend, led>>

\* The call returns to its caller; the lock_guard, if the call took the
\* lock, releases it (Light.cpp:163 and 171-172).
Return(t) ==
    /\ pc[t] = "return"
    /\ mLock' = IF mLock = t THEN 0 ELSE mLock
    /\ pc' = [pc EXCEPT ![t] = "idle"]
    /\ req' = [req EXCEPT ![t] = NoReq]
    /\ stateToUse' = [stateToUse EXCEPT ![t] = OffState]
    /\ writes' = [writes EXCEPT ![t] = <<>>]
    /\ status' = [status EXCEPT ![t] = "NONE"]
    /\ types' = [types EXCEPT ![t] = <<>>]
    /\ maxRead' = [maxRead EXCEPT ![t] = ReadFail]
    /\ UNCHANGED <<mLights, mLightStates, pend, led>>

\* getSupportedTypes (Light.cpp:174-184): the keys of mLights as its
\* iteration yields them, handed to the callback.
SupportedTypes(lights) == [i \in 1..Len(lights) |-> lights[i].type]

GetSupportedTypes(t) ==
    /\ pc[t] = "idle"
    /\ types' = [types EXCEPT ![t] = SupportedTypes(mLights)]
    /\ pc' = [pc EXCEPT ![t] = "callback"]
    /\ UNCHANGED <<mLights, mLightStates, mLock, req, stateToUse, pend, writes, status, maxRead, led>>

GetSupportedTypesReturn(t) ==
    /\ pc[t] = "callback"
    /\ types' = [types EXCEPT ![t] = <<>>]
    /\ pc' = [pc EXCEPT ![t] = "idle"]
    /\ UNCHANGED <<mLights, mLightStates, mLock, req, stateToUse, pend, writes, status, maxRead, led>>

Next ==
    \E t \in Threads :
        \/ SetLightCall(t, CallTypes, CallStates)
        \/ SetLightCall(t, {"BACKLIGHT", "BUTTONS"}, {White})
        \/ Lock(t)
        \/ SetRgbLight(t)
        \/ SetBacklight(t, CallReads)
        \/ SetButtonBacklight(t)
        \/ set(t)
        \/ HandlerDone(t)
        \/ Return(t)
        \/ GetSupportedTypes(t)
        \/ GetSupportedTypesReturn(t)

Spec == Init /\ [][Next]_vars

-----------------------------------------------------------------------------
(* The RGB handler alone, over a wide range of stored states *)

\* Greys of every channel value under a short timed blink, and two colours
\* under every flash mode and a grid of on and off durations around 0 and
\* around the 240 ms a full ramp takes.
RgbStates ==
    {LS(b * 65793, "TIMED", 100, 200) : b \in 0..255}
    \cup {LS(c, m, on, off) :
            c \in {0, 33023}, m \in {"NONE", "TIMED", "HARDWARE"},
            on \in {-1, 0, 1, 15, 16, 17, 239, 240, 241, 1000},
            off \in {-1, 0, 1, 100, 239, 240, 241, 1000}}

\* Slot 0 holds any of RgbStates, the other slots are off.
InitRgb == InitWith({[i \in Slots |-> IF i = 0 THEN s ELSE OffState] : s \in RgbStates})

\* One caller turns BATTERY or NOTIFICATIONS off, which shows slot 0's state.
NextRgb ==
    \E t \in {1} :
        \/ SetLightCall(t, {"BATTERY", "NOTIFICATIONS"}, {OffState})
        \/ Lock(t)
        \/ SetRgbLight(t)
        \/ set(t)
        \/ HandlerDone(t)
        \/ Return(t)

SpecRgb == InitRgb /\ [][NextRgb]_vars

-----------------------------------------------------------------------------
(* The backlight and button handlers alone, over every luma, a range of     *)
(* maxima and a range of colours                                           *)

\* A grey of every channel value: its luma is the channel value.
GreyStates == {LS(v * 65793, "NONE", 0, 0) : v \in 0..255}

BacklightReads ==
    {ReadFail}
    \cup {ReadOk(m) : m \in {-MaxInt32 - 1, -1, 0, 1, 2, 100, 254, 255, 256, 1023, 4095,
                             8454661, 8454662, MaxInt32}}

\* Colours of every combination of five values per channel, under a zero and
\* a nonzero top byte.
LumaStates ==
    {LS(a * 16777216 + r * 65536 + g * 256 + b, "NONE", 0, 0) :
        a \in {0, 127}, r \in {0, 1, 127, 128, 255},
        g \in {0, 1, 127, 128, 255}, b \in {0, 1, 127, 128, 255}}

InitBacklight == InitWith({[i \in Slots |-> OffState]})

NextBacklight ==
    \E t \in {1} :
        \/ SetLightCall(t, {"BACKLIGHT"}, GreyStates)
        \/ SetLightCall(t, {"BUTTONS"}, LumaStates)
        \/ Lock(t)
        \/ SetBacklight(t, BacklightReads)
        \/ SetButtonBacklight(t)
        \/ set(t)
        \/ HandlerDone(t)
        \/ Return(t)

SpecBacklight == InitBacklight /\ [][NextBacklight]_vars

-----------------------------------------------------------------------------
(* The lock under any number of callers, over a small range of requests *)

LockStates == {OffState, LS(65280, "TIMED", 100, 200)}

InitLock == InitWith([Slots -> LockStates])

NextLock ==
    \E t \in Threads :
        \/ SetLightCall(t, CallTypes, LockStates)
        \/ SetLightCall(t, {"BUTTONS"}, {White})
        \/ Lock(t)
        \/ SetRgbLight(t)
        \/ SetBacklight(t, {ReadFail})
        \/ SetButtonBacklight(t)
        \/ set(t)
        \/ HandlerDone(t)
        \/ Return(t)
        \/ GetSupportedTypes(t)
        \/ GetSupportedTypesReturn(t)

SpecLock == InitLock /\ [][NextLock]_vars

\* Scheduling: a call runs on its caller's thread, which keeps running, so
\* each step of a call that can be taken is taken; a thread blocked on the
\* mutex gets it if it is released again and again.  Nothing makes a caller
\* start a call.
FairLock ==
    \A t \in Threads :
        /\ SF_vars(Lock(t))
        /\ WF_vars(SetRgbLight(t))
        /\ WF_vars(SetBacklight(t, {ReadFail}))
        /\ WF_vars(SetButtonBacklight(t))
        /\ WF_vars(set(t))
        /\ WF_vars(HandlerDone(t))
        /\ WF_vars(Return(t))
        /\ WF_vars(GetSupportedTypesReturn(t))

FairSpecLock == SpecLock /\ FairLock

-----------------------------------------------------------------------------
(* Properties *)

RegisteredTypes == {"ATTENTION", "BACKLIGHT", "BATTERY", "BUTTONS", "NOTIFICATIONS"}
RgbTypes == {"ATTENTION", "NOTIFICATIONS", "BATTERY"}

\* A thread is inside its handler from the call of it->second to its return.
InHandler(t) == pc[t] \in {"handler", "write"}

\* The call of thread t has run its handler to the end and is about to return.
Completed(t) == pc[t] = "return" /\ status[t] = "SUCCESS"

ZeroColor(state) == (state.color % 16777216) = 0

\* C1: the handlers of two concurrent setLight calls never run at the same
\* time, so every write of one call (its store mutation included) comes
\* before the first write of the other.
C1_NoInterleaving ==
    \A t, u \in Threads :
        t # u => ~(InHandler(t) /\ InHandler(u))

\* A Battery call is in the middle of its writes while a Notifications call
\* waits for the lock.
C1_Witness ==
    \E t, u \in Threads :
        /\ req[t].type = "BATTERY" /\ pc[t] = "write"
        /\ writes[t] # <<>> /\ pend[t] # <<>>
        /\ req[u].type = "NOTIFICATIONS" /\ pc[u] = "lock"

\* C2: when an RGB call completes, its slot holds the state it passed, and
\* the state that drove its writes is the first of the Attention,
\* Notifications and Battery slots (0, 1, 2) whose colour is not zero.
C2_Arbitration ==
    \A t \in Threads :
        (Completed(t) /\ req[t].type \in RgbTypes) =>
            LET attention == mLightStates[0]
                notifications == mLightStates[1]
                battery == mLightStates[2]
                own == CASE req[t].type = "ATTENTION" -> attention
                         [] req[t].type = "NOTIFICATIONS" -> notifications
                         [] req[t].type = "BATTERY" -> battery
            IN  /\ own = req[t].state
                /\ ~ZeroColor(attention) => stateToUse[t] = attention
                /\ (ZeroColor(attention) /\ ~ZeroColor(notifications)) =>
                       stateToUse[t] = notifications
                /\ (ZeroColor(attention) /\ ZeroColor(notifications) /\ ~ZeroColor(battery)) =>
                       stateToUse[t] = battery

\* Attention is 0x000000, Notifications 0x00FF00, Battery 0xFF0000 and the
\* completed call showed the Notifications state.
C2_Witness ==
    \E t \in Threads :
        /\ Completed(t) /\ req[t].type \in RgbTypes
        /\ mLightStates[0].color = 0
        /\ mLightStates[1].color = 65280
        /\ mLightStates[2].color = 16711680
        /\ stateToUse[t] = mLightStates[1]
        /\ Len(writes[t]) = 24

\* C3: a setLight call with an unregistered type returns LIGHT_NOT_SUPPORTED
\* at once; from its call to its return it issues no write, takes no lock
\* and leaves the state store and the LED as they are.
C3_Unsupported ==
    [][\A t \in Threads :
          /\ (pc[t] = "idle" /\ pc'[t] \notin {"idle", "callback"}
                /\ req'[t].type \notin RegisteredTypes) =>
                 /\ pc'[t] = "return"
                 /\ status'[t] = "LIGHT_NOT_SUPPORTED"
                 /\ writes'[t] = <<>> /\ pend'[t] = <<>>
                 /\ mLightStates' = mLightStates /\ led' = led /\ mLock' = mLock
          /\ (pc[t] \notin {"idle", "callback"} /\ req[t].type \notin RegisteredTypes) =>
                 /\ status[t] = "LIGHT_NOT_SUPPORTED"
                 /\ writes[t] = <<>>
                 /\ (pc'[t] # pc[t] =>
                        /\ pc'[t] = "idle"
                        /\ mLightStates' = mLightStates /\ led' = led /\ mLock' = mLock)
      ]_vars

\* An unregistered call has returned LIGHT_NOT_SUPPORTED while another call
\* is in the middle of its writes.
C3_Witness ==
    \E t, u \in Threads :
        /\ req[t].type = "KEYBOARD" /\ pc[t] = "return"
        /\ status[t] = "LIGHT_NOT_SUPPORTED"
        /\ pc[u] = "write" /\ writes[u] # <<>> /\ pend[u] # <<>>

Channels == {"red", "green", "blue"}
LutOps == <<"lut_flags", "start_idx", "duty_pcts", "pause_lo", "pause_hi", "ramp_step_ms">>
IsLut(w) == \E k \in 1..Len(LutOps) : w.op = LutOps[k]

\* The 0-255 value of a channel of a packed colour.
ChannelValue(color, ch) ==
    CASE ch = "red"   -> (color % 16777216) \div 65536
      [] ch = "green" -> (color % 65536) \div 256
      [] ch = "blue"  -> color % 256

\* The ops of the LUT writes a call made to one channel, in order.
LutOpsOf(w, ch) ==
    LET sel == SelectSeq(w, LAMBDA x : x.led = ch /\ IsLut(x))
    IN  [k \in 1..Len(sel) |-> sel[k].op]

\* The state asks for a timed blink with both durations positive.
Blinks(state) ==
    state.flashMode = "TIMED" /\ state.flashOnMs > 0 /\ state.flashOffMs > 0

\* C4: an RGB call on the blink path first writes blink = 0 on the three
\* channels, then for each channel lut_flags, start_idx, duty_pcts, pause_lo,
\* pause_hi, ramp_step_ms in that order, and only after every LUT write
\* writes blink with the channel's intensity on each channel.
C4_BlinkOrder ==
    \A t \in Threads :
        (Completed(t) /\ req[t].type \in RgbTypes /\ Blinks(stateToUse[t])) =>
            LET w == writes[t]
                n == Len(w)
            IN  /\ n >= 6
                /\ {w[i].led : i \in 1..3} = Channels
                /\ \A i \in 1..3 : w[i].op = "blink" /\ w[i].value = <<0>>
                /\ \E i \in 1..n : IsLut(w[i])
                /\ \A i \in 1..n : IsLut(w[i]) => (3 < i /\ i <= n - 3)
                /\ \A ch \in Channels : LutOpsOf(w, ch) = LutOps
                /\ {w[i].led : i \in (n - 2)..n} = Channels
                /\ \A i \in (n - 2)..n :
                      /\ w[i].op = "blink"
                      /\ w[i].value = <<ChannelValue(stateToUse[t].color, w[i].led)>>

\* A blink of a colour with three different channel values has completed.
C4_Witness ==
    \E t \in Threads :
        /\ Completed(t) /\ req[t].type \in RgbTypes
        /\ stateToUse[t] = LS(33023, "TIMED", 1000, 100)
        /\ Len(writes[t]) = 24
        /\ writes[t][24] = Write("red", "blink", <<0>>)
        /\ writes[t][22] = Write("blue", "blink", <<255>>)

\* C5: when all three slots have a zero colour as an RGB call completes, the
\* state it showed is slot 0's, and every intensity it wrote to the blink or
\* brightness node of red, green and blue is 0.
C5_AllOff ==
    \A t \in Threads :
        (Completed(t) /\ req[t].type \in RgbTypes
           /\ \A i \in Slots : ZeroColor(mLightStates[i])) =>
            /\ stateToUse[t] = mLightStates[0]
            /\ \A ch \in Channels :
                  \E i \in 1..Len(writes[t]) :
                      writes[t][i].led = ch /\ writes[t][i].op \in {"blink", "brightness"}
            /\ \A i \in 1..Len(writes[t]) :
                  writes[t][i].op \in {"blink", "brightness"} => writes[t][i].value = <<0>>
            /\ \A ch \in Channels : led[ch] = 0

\* All slots are zero-coloured, slot 0 differs from slot 2, and a Battery
\* call has completed.
C5_Witness ==
    \E t \in Threads :
        /\ Completed(t) /\ req[t].type = "BATTERY"
        /\ \A i \in Slots : ZeroColor(mLightStates[i])
        /\ mLightStates[0] = LS(2130706432, "TIMED", 500, 500)
        /\ mLightStates[2] = OffState
        /\ Len(writes[t]) = 24

\* C6: with durations that are not negative, an RGB call takes the static
\* path exactly when the shown state is not Timed or has a zero on or off
\* duration: it then writes the raw channel value to brightness on each
\* channel and neither a LUT parameter nor a second blink; otherwise it
\* writes the LUT parameters of each channel and no brightness.
C6_StaticPath ==
    \A t \in Threads :
        (Completed(t) /\ req[t].type \in RgbTypes
           /\ stateToUse[t].flashOnMs >= 0 /\ stateToUse[t].flashOffMs >= 0) =>
            LET s == stateToUse[t]
                w == writes[t]
                n == Len(w)
                brightness == {i \in 1..n : w[i].op = "brightness"}
                blink == {i \in 1..n : w[i].op = "blink"}
                lut == {i \in 1..n : IsLut(w[i])}
            IN  IF s.flashMode # "TIMED" \/ s.flashOnMs = 0 \/ s.flashOffMs = 0
                THEN /\ lut = {}
                     /\ blink = 1..3
                     /\ \A i \in blink : w[i].value = <<0>>
                     /\ Cardinality(brightness) = 3
                     /\ {w[i].led : i \in brightness} = Channels
                     /\ \A i \in brightness : w[i].value = <<ChannelValue(s.color, w[i].led)>>
                ELSE /\ brightness = {}
                     /\ \A ch \in Channels : LutOpsOf(w, ch) = LutOps

\* A Timed state with a positive on and a zero off duration was shown on the
\* static path.
C6_Witness ==
    \E t \in Threads :
        /\ Completed(t) /\ req[t].type \in RgbTypes
        /\ stateToUse[t] = LS(33023, "TIMED", 1000, 0)
        /\ Len(writes[t]) = 6
        /\ writes[t][4] = Write("blue", "brightness", <<255>>)

C8_BacklightScale ==
    \A t \in Threads :
        (Completed(t) /\ req[t].type = "BACKLIGHT") =>
            LET v == rgbToBrightness(req[t].state)
                r == maxRead[t]
                written == writes[t][1].value
            IN  /\ Len(writes[t]) = 1
                /\ writes[t][1].led = "lcd-backlight" /\ writes[t][1].op = "brightness"
                /\ (r.fail \/ r.value < 0 \/ r.value = 255) => written = <<v>>
                /\ v = 0 => written = <<0>>
                /\ (~r.fail /\ r.value >= 1 /\ v = 255) => written = <<r.value>>

\* C9: every duty_pcts write has 17 elements, element i being
\* i*512*b/(255*16) for the channel's brightness b; it starts at 0, never
\* decreases, ends at 512*b/255 and stays within 0..512.
C9_DutyRamp ==
    \A t \in Threads :
        \A i \in 1..Len(writes[t]) :
            writes[t][i].op = "duty_pcts" =>
                LET d == writes[t][i].value
                    b == ChannelValue(stateToUse[t].color, writes[t][i].led)
                IN  /\ Len(d) = 17
                    /\ \A k \in 1..Len(d) : d[k] = ((k - 1) * 512 * b) \div (255 * 16)
                    /\ \A k \in 1..(Len(d) - 1) : d[k] <= d[k + 1]
                    /\ d[1] = 0
                    /\ d[Len(d)] = (512 * b) \div 255
                    /\ \A k \in 1..Len(d) : d[k] >= 0 /\ d[k] <= 512

\* The duty ramp of a channel of brightness 128 was written: it ends at 257.
C9_Witness ==
    \E t \in Threads :
        \E i \in 1..Len(writes[t]) :
            /\ writes[t][i].op = "duty_pcts" /\ writes[t][i].led = "green"
            /\ stateToUse[t].color = 33023
            /\ writes[t][i].value[2] = 16
            /\ writes[t][i].value[17] = 257

\* C10: setLight(Buttons) returns SUCCESS after exactly one write, of the
\* colour's luma to the buttons' brightness node (255 for 0xFFFFFF).
C10_Buttons ==
    \A t \in Threads :
        (req[t].type = "BUTTONS" /\ pc[t] = "return") =>
            /\ status[t] = "SUCCESS"
            /\ writes[t] = <<Write("button-backlight", "brightness",
                                   <<rgbToBrightness(req[t].state)>>)>>
            /\ req[t].state.color = 16777215 => writes[t][1].value = <<255>>

\* A Buttons call with colour 0xFFFFFF has completed with its write of 255.
C10_Witness ==
    \E t \in Threads :
        /\ req[t].type = "BUTTONS" /\ Completed(t)
        /\ req[t].state.color = 16777215
        /\ writes[t] = <<Write("button-backlight", "brightness", <<255>>)>>

\* C11: the luma written for a colour is (77*R + 150*G + 29*B) >> 8 of the
\* channels in its low 24 bits, whatever its top byte; it lies in 0..255 and
\* is 0 for 0x000000, 255 for 0xFFFFFF and 76 for 0xFF0000.
C11_Luma ==
    \A t \in Threads :
        (Completed(t) /\ req[t].type = "BUTTONS") =>
            LET rgb == req[t].state.color % 16777216
                R == rgb \div 65536
                G == (rgb - R * 65536) \div 256
                B == rgb - R * 65536 - G * 256
                luma == writes[t][1].value[1]
            IN  /\ Len(writes[t]) = 1
                /\ luma * 256 <= 77 * R + 150 * G + 29 * B
                /\ 77 * R + 150 * G + 29 * B < (luma + 1) * 256
                /\ luma >= 0 /\ luma <= 255
                /\ rgb = 0 => luma = 0
                /\ rgb = 16777215 => luma = 255
                /\ rgb = 16711680 => luma = 76

\* The luma of 0xFF0000 under a nonzero top byte was written: 76.
C11_Witness ==
    \E t \in Threads :
        /\ Completed(t) /\ req[t].type = "BUTTONS"
        /\ req[t].state.color = 127 * 16777216 + 16711680
        /\ writes[t] = <<Write("button-backlight", "brightness", <<76>>)>>

\* The writes that turn the LED off on the static path.
OffWrites ==
    << Write("blue", "blink", <<0>>), Write("green", "blink", <<0>>),
       Write("red", "blink", <<0>>),
       Write("blue", "brightness", <<0>>), Write("green", "brightness", <<0>>),
       Write("red", "brightness", <<0>>) >>

\* C12 as stated: with all three slots zero-coloured an RGB call performs
\* the same writes whatever slot 0's flashMode, flashOnMs and flashOffMs
\* are, those of the run whose slot 0 is off and not Timed.
C12_SameWrites ==
    \A t \in Threads :
        (Completed(t) /\ req[t].type \in RgbTypes
           /\ \A i \in Slots : mLightStates[i].color = 0) =>
            writes[t] = OffWrites

\* C12: with all three slots zero-coloured an RGB call turns the LED off
\* whatever slot 0's flash fields are: every blink and brightness value and
\* every duty-cycle element it writes is 0.  Its writes follow slot 0's
\* flash fields: the 24 writes of the ramp when slot 0 is Timed with both
\* durations positive, the six static writes otherwise.
C12_OffWhateverTiming ==
    \A t \in Threads :
        (Completed(t) /\ req[t].type \in RgbTypes
           /\ \A i \in Slots : mLightStates[i].color = 0) =>
            LET w == writes[t]
            IN  /\ \A i \in 1..Len(w) :
                      /\ w[i].op \in {"blink", "brightness"} => w[i].value = <<0>>
                      /\ w[i].op = "duty_pcts" => \A k \in 1..Len(w[i].value) : w[i].value[k] = 0
                /\ IF Blinks(mLightStates[0])
                   THEN Len(w) = 24 /\ \A ch \in Channels : LutOpsOf(w, ch) = LutOps
                   ELSE w = OffWrites

\* All slots have colour 0, slot 0 is Timed with positive durations, and the
\* call that showed it has completed on the ramp path.
C12_Witness ==
    \E t \in Threads :
        /\ Completed(t) /\ req[t].type \in RgbTypes
        /\ \A i \in Slots : mLightStates[i].color = 0
        /\ mLightStates[0] = LS(0, "TIMED", 1000, 100)
        /\ Len(writes[t]) = 24
        /\ writes[t][24] = Write("red", "blink", <<0>>)

\* The values a call wrote to one op of one channel, in order.
ValuesOf(w, ch, op) ==
    LET sel == SelectSeq(w, LAMBDA x : x.led = ch /\ x.op = op)
    IN  [k \in 1..Len(sel) |-> sel[k].value]

\* C13: on the blink path every channel gets the same timing: for an on
\* duration below 240 ms ramp_step_ms = onMs/16, pause_hi = 0 and
\* pause_lo = offMs; else ramp_step_ms = 15, pause_hi = onMs - 240 and
\* pause_lo = offMs - 240; ramp_step_ms lies in 0..15.
C13_Timing ==
    \A t \in Threads :
        (Completed(t) /\ req[t].type \in RgbTypes /\ Blinks(stateToUse[t])) =>
            LET onMs == stateToUse[t].flashOnMs
                offMs == stateToUse[t].flashOffMs
                step == IF 15 * 16 > onMs THEN onMs \div 16 ELSE 15
                hi == IF 15 * 16 > onMs THEN 0 ELSE onMs - 240
                lo == IF 15 * 16 > onMs THEN offMs ELSE offMs - 240
            IN  /\ step >= 0 /\ step <= 15
                /\ \A ch \in Channels :
                      /\ ValuesOf(writes[t], ch, "ramp_step_ms") = << <<step>> >>
                      /\ ValuesOf(writes[t], ch, "pause_hi") = << <<hi>> >>
                      /\ ValuesOf(writes[t], ch, "pause_lo") = << <<lo>> >>

\* A blink of exactly 240 ms on and 1000 ms off has completed: step 15,
\* pause_hi 0, pause_lo 760.
C13_Witness ==
    \E t \in Threads :
        /\ Completed(t) /\ req[t].type \in RgbTypes
        /\ stateToUse[t] = LS(33023, "TIMED", 240, 1000)
        /\ ValuesOf(writes[t], "red", "ramp_step_ms") = << <<15>> >>
        /\ ValuesOf(writes[t], "red", "pause_hi") = << <<0>> >>
        /\ ValuesOf(writes[t], "red", "pause_lo") = << <<760>> >>

\* C14: on the blink path the pause_lo and pause_hi values written are not
\* negative.
C14_PausesNotNegative ==
    \A t \in Threads :
        (Completed(t) /\ req[t].type \in RgbTypes /\ Blinks(stateToUse[t])) =>
            \A i \in 1..Len(writes[t]) :
                writes[t][i].op \in {"pause_lo", "pause_hi"} => writes[t][i].value[1] >= 0

\* The LUT slots a channel occupies: from its start_idx, one per element of
\* its duty_pcts.
LutSlots(w, ch) ==
    LET start == ValuesOf(w, ch, "start_idx")[1][1]
        duty == ValuesOf(w, ch, "duty_pcts")[1]
    IN  start..(start + Len(duty) - 1)

\* C15: on the blink path blue starts at LUT index 0, green at 17 and red at
\* 34; each channel occupies 17 consecutive slots, the three ranges are
\* disjoint, and the 51 slots used end at 50, within the 63 of the LUT.
C15_LutPlacement ==
    \A t \in Threads :
        (Completed(t) /\ req[t].type \in RgbTypes /\ Blinks(stateToUse[t])) =>
            LET w == writes[t]
                used == UNION {LutSlots(w, ch) : ch \in Channels}
            IN  /\ ValuesOf(w, "blue", "start_idx") = << <<0>> >>
                /\ ValuesOf(w, "green", "start_idx") = << <<17>> >>
                /\ ValuesOf(w, "red", "start_idx") = << <<34>> >>
                /\ \A ch \in Channels :
                      /\ Len(ValuesOf(w, ch, "duty_pcts")) = 1
                      /\ Cardinality(LutSlots(w, ch)) = 17
                /\ \A c, d \in Channels : c # d => LutSlots(w, c) \cap LutSlots(w, d) = {}
                /\ used = 0..50
                /\ Cardinality(used) = 51
                /\ \A i \in used : i < 63

\* A blink has completed with red's ramp starting at index 34.
C15_Witness ==
    \E t \in Threads :
        /\ Completed(t) /\ req[t].type \in RgbTypes
        /\ stateToUse[t] = LS(33023, "TIMED", 17, 239)
        /\ ValuesOf(writes[t], "red", "start_idx") = << <<34>> >>
        /\ LutSlots(writes[t], "red") = 34..50

\* The slot of the store each RGB light owns.
SlotOf(type) ==
    CASE type = "ATTENTION" -> 0
      [] type = "NOTIFICATIONS" -> 1
      [] type = "BATTERY" -> 2

\* C16: the store always has the three slots 0..2; a step of a Backlight or
\* Buttons handler leaves the store as it is; a step of the handler of
\* Attention, Notifications or Battery makes its own slot (0, 1, 2) the
\* request's state and leaves the two others; no other step changes the store.
C16_Frame ==
    [][ /\ DOMAIN mLightStates = Slots /\ DOMAIN mLightStates' = Slots
        /\ \A t \in Threads :
              (pc[t] = "handler" /\ pc'[t] = "write") =>
                  IF req[t].type \in RgbTypes
                  THEN mLightStates' =
                          [mLightStates EXCEPT ![SlotOf(req[t].type)] = req[t].state]
                  ELSE mLightStates' = mLightStates
        /\ (\A t \in Threads : ~(pc[t] = "handler" /\ pc'[t] = "write")) =>
              mLightStates' = mLightStates ]_vars

\* A Battery call has replaced slot 2 alone: slot 1 still holds another state.
C16_Witness ==
    \E t \in Threads :
        /\ Completed(t) /\ req[t].type = "BATTERY"
        /\ req[t].state = LS(65280, "TIMED", 100, 200)
        /\ mLightStates[2] = req[t].state
        /\ mLightStates[1] = OffState
        /\ mLightStates[0] = OffState

\* A setLight call of thread t is in progress.
InCall(t) == pc[t] \in {"lock", "handler", "write", "return"}

C18_ScaleRange ==
    \A t \in Threads :
        (/\ Completed(t) /\ req[t].type = "BACKLIGHT"
         /\ ~maxRead[t].fail /\ maxRead[t].value >= 1 /\ maxRead[t].value # 255
         /\ rgbToBrightness(req[t].state) \in 1..255) =>
            LET m == maxRead[t].value
                v == rgbToBrightness(req[t].state)
                x == writes[t][1].value[1]
            IN  /\ x # 0
                /\ x >= 1 /\ x <= m
                /\ \A u \in 1..v :
                      \A y \in BacklightBrightness(maxRead[t], LS(u * 65793, "NONE", 0, 0)) :
                          y <= x

\* C19: when no setLight call is in progress and the RGB channels have been
\* written, the value last written to each channel's blink or brightness node
\* is that channel's value of the state picked from the store as it is now.
C19_LedShowsStore ==
    ((\A t \in Threads : ~InCall(t)) /\ (\A ch \in Channels : led[ch] # -1)) =>
        \A ch \in Channels :
            led[ch] = ChannelValue(StateToUse(mLightStates).color, ch)

\* No call is in progress, Notifications holds the green blink under an
\* Attention that is off, and green was last written 255.
C19_Witness ==
    /\ \A t \in Threads : ~InCall(t)
    /\ mLightStates[0] = OffState
    /\ mLightStates[1] = LS(65280, "TIMED", 100, 200)
    /\ led["green"] = 255 /\ led["red"] = 0 /\ led["blue"] = 0

====
